---- MODULE Spec2Model ----
(***************************************************************************)
(* Model of the FinancialManager server: the in-memory store MemStorage    *)
(* (server/storage.ts) and the route handlers of registerRoutes            *)
(* (POST /api/sales, /api/collections, /api/sales-returns, GET             *)
(* /api/balance-sheet, /api/stats).                                        *)
(*                                                                         *)
(* Amounts are JavaScript numbers that the code stores as decimal strings  *)
(* (n.toString()) and reads back with parseFloat.  The model draws every   *)
(* amount from the integers, which doubles represent exactly and for which *)
(* toString/parseFloat is an exact round trip, so an amount is an Int.     *)
(* Text fields no branch reads (names, descriptions, references, notes)    *)
(* are left out of the records.                                            *)
(*                                                                         *)
(* A handler is an async function.  Between two awaits it runs without     *)
(* interruption; the model calls such a stretch a segment.  Segment(S, L)  *)
(* runs one segment of the handler whose local state is L on the store S.  *)
(* Awaits that only pass a value on (no shared state is read or written    *)
(* before the next await) are merged into the following segment.           *)
(***************************************************************************)
EXTENDS Integers, Sequences, FiniteSets, TLC

\* ---------------------------------------------------------------- bounds

MaxEvents == 3         \* accepted events (sales, collections, returns) per run
MaxItems == 2          \* items per sale or return request
MaxInvoiceNumber == 2  \* invoice numbers 1..MaxInvoiceNumber
MaxIoEvents == 2       \* accepted events per run when file writes may fail
MaxJournal == 3        \* journal entries per run when the store is called directly
MaxRequests == 2       \* requests per run when requests overlap
MaxInFlight == 2       \* requests in flight together
MaxFormEvents == 2     \* accepted events per run when the bodies may be invalid
MaxSnapEvents == 2     \* transaction ids issued per store when snapshots move
MaxListedEvents == 3   \* accepted sales per run when the journal is listed

\* ------------------------------------------------------------- Map<number,T>

\* A JavaScript Map keeps insertion order: the model holds it as the sequence
\* of its values, each carrying its key in the field id.
MapHas(m, id) == \E i \in DOMAIN m : m[i].id = id

MapGet(m, id) == m[CHOOSE i \in DOMAIN m : m[i].id = id]

\* Map.prototype.set: an existing key keeps its place and takes the new value,
\* a new key is appended.
MapSet(m, v) ==
  IF MapHas(m, v.id)
    THEN [i \in DOMAIN m |-> IF m[i].id = v.id THEN v ELSE m[i]]
    ELSE Append(m, v)

RECURSIVE SumSeq(_)
SumSeq(s) == IF s = <<>> THEN 0 ELSE Head(s) + SumSeq(Tail(s))

\* ------------------------------------------------------------- MemStorage

CashCode == "1001"
ReceivableCode == "1002"
InventoryCode == "1003"
PayableCode == "2001"
ShareCapitalCode == "3001"
SalesRevenueCode == "4001"
SalesReturnsCode == "4002"
CogsCode == "5001"

SeedCash == 2375000
SeedInventory == 450000
SeedShareCapital == 2825000

defaultAccounts ==
  << [code |-> CashCode, balance |-> SeedCash],
     [code |-> ReceivableCode, balance |-> 0],
     [code |-> InventoryCode, balance |-> SeedInventory],
     [code |-> PayableCode, balance |-> 0],
     [code |-> ShareCapitalCode, balance |-> SeedShareCapital],
     [code |-> SalesRevenueCode, balance |-> 0],
     [code |-> SalesReturnsCode, balance |-> 0],
     [code |-> CogsCode, balance |-> 0] >>

\* The fields of a MemStorage before its constructor body runs.
EmptyStorage ==
  [ accounts |-> <<>>, transactions |-> <<>>, journalEntries |-> <<>>,
    salesInvoices |-> <<>>, salesItems |-> <<>>, collections |-> <<>>,
    salesReturns |-> <<>>, returnItems |-> <<>>,
    currentAccountId |-> 1, currentTransactionId |-> 1,
    currentJournalEntryId |-> 1, currentSalesInvoiceId |-> 1,
    currentSalesItemId |-> 1, currentCollectionId |-> 1,
    currentSalesReturnId |-> 1, currentReturnItemId |-> 1 ]

createAccount(S, account) ==
  [S EXCEPT !.accounts = MapSet(@, [id |-> S.currentAccountId,
                                     code |-> account.code,
                                     balance |-> account.balance]),
            !.currentAccountId = @ + 1]

RECURSIVE SeedAccounts(_, _)
SeedAccounts(S, todo) ==
  IF todo = <<>> THEN S
  ELSE SeedAccounts(createAccount(S, Head(todo)), Tail(todo))

initializeChartOfAccounts(S) == SeedAccounts(S, defaultAccounts)

NewMemStorage == initializeChartOfAccounts(EmptyStorage)

\* Array.find over the accounts: the first account with the code, as the
\* singleton sequence holding it, or <<>> for undefined.
getAccountByCode(S, code) ==
  LET hits == SelectSeq(S.accounts, LAMBDA a : a.code = code)
  IN IF hits = <<>> THEN <<>> ELSE <<Head(hits)>>

\* parseFloat(account?.balance || '0')
BalanceOf(S, code) ==
  LET a == getAccountByCode(S, code)
  IN IF a = <<>> THEN 0 ELSE a[1].balance

\* The part of updateAccountBalance after its await: account is what the
\* lookup before the await found (<<>> for undefined); a missing account is
\* skipped and the call resolves all the same.
updateAccountBalanceWrite(S, account, balance) ==
  IF account = <<>> THEN S
  ELSE [S EXCEPT !.accounts = MapSet(@, [account[1] EXCEPT !.balance = balance])]

\* updateAccountBalance run without interruption.
updateAccountBalance(S, code, balance) ==
  updateAccountBalanceWrite(S, getAccountByCode(S, code), balance)

createTransaction(S, transaction) ==
  [S EXCEPT !.transactions = MapSet(@, [id |-> S.currentTransactionId,
                                         date |-> transaction.date,
                                         type |-> transaction.type,
                                         totalAmount |-> transaction.totalAmount]),
            !.currentTransactionId = @ + 1]

\* Faulty variant of createJournalEntry: the id counter is not advanced, so
\* the entry takes the place of the one created before it.
createJournalEntryNoIncrement(S, entry) ==
  [S EXCEPT !.journalEntries = MapSet(@, [id |-> S.currentJournalEntryId,
                                           transactionId |-> entry.transactionId,
                                           accountCode |-> entry.accountCode,
                                           debitAmount |-> entry.debitAmount,
                                           creditAmount |-> entry.creditAmount,
                                           date |-> entry.date])]

createJournalEntry(S, entry) ==
  [S EXCEPT !.journalEntries = MapSet(@, [id |-> S.currentJournalEntryId,
                                           transactionId |-> entry.transactionId,
                                           accountCode |-> entry.accountCode,
                                           debitAmount |-> entry.debitAmount,
                                           creditAmount |-> entry.creditAmount,
                                           date |-> entry.date]),
            !.currentJournalEntryId = @ + 1]

RECURSIVE createJournalEntries(_, _)
createJournalEntries(S, entries) ==
  IF entries = <<>> THEN S
  ELSE createJournalEntries(createJournalEntry(S, Head(entries)), Tail(entries))

\* Faulty variant of the lookup: any id finds the first invoice of the store.
getSalesInvoiceByIdAny(S, id) ==
  IF S.salesInvoices = <<>> THEN <<>> ELSE <<S.salesInvoices[1]>>

getSalesInvoiceById(S, id) ==
  IF MapHas(S.salesInvoices, id) THEN <<MapGet(S.salesInvoices, id)>> ELSE <<>>

createSalesInvoice(S, invoice) ==
  [S EXCEPT !.salesInvoices = MapSet(@, [id |-> S.currentSalesInvoiceId,
                                          invoiceNumber |-> invoice.invoiceNumber,
                                          date |-> invoice.date,
                                          paymentMethod |-> invoice.paymentMethod,
                                          totalAmount |-> invoice.totalAmount,
                                          paidAmount |-> invoice.paidAmount,
                                          outstandingAmount |-> invoice.outstandingAmount,
                                          status |-> invoice.status]),
            !.currentSalesInvoiceId = @ + 1]

\* Faulty variant of the payment update: the status is left as it was.
updateSalesInvoicePaymentKeepStatus(S, id, paidAmount, outstandingAmount, status) ==
  IF MapHas(S.salesInvoices, id)
    THEN [S EXCEPT !.salesInvoices =
            MapSet(@, [MapGet(S.salesInvoices, id) EXCEPT
                         !.paidAmount = paidAmount,
                         !.outstandingAmount = outstandingAmount])]
    ELSE S

updateSalesInvoicePayment(S, id, paidAmount, outstandingAmount, status) ==
  IF MapHas(S.salesInvoices, id)
    THEN [S EXCEPT !.salesInvoices =
            MapSet(@, [MapGet(S.salesInvoices, id) EXCEPT
                         !.paidAmount = paidAmount,
                         !.outstandingAmount = outstandingAmount,
                         !.status = status])]
    ELSE S

createSalesItem(S, item) ==
  [S EXCEPT !.salesItems = MapSet(@, [id |-> S.currentSalesItemId,
                                       invoiceId |-> item.invoiceId,
                                       quantity |-> item.quantity,
                                       unitPrice |-> item.unitPrice,
                                       cogsUnit |-> item.cogsUnit,
                                       totalAmount |-> item.totalAmount]),
            !.currentSalesItemId = @ + 1]

createCollection(S, collection) ==
  [S EXCEPT !.collections = MapSet(@, [id |-> S.currentCollectionId,
                                        invoiceId |-> collection.invoiceId,
                                        date |-> collection.date,
                                        amount |-> collection.amount]),
            !.currentCollectionId = @ + 1]

\* Faulty variant of the creation of a return: the invoice's outstanding
\* amount is reduced by the amount returned.
createSalesReturnAdjusting(S, salesReturn) ==
  [S EXCEPT !.salesReturns = MapSet(@, [id |-> S.currentSalesReturnId,
                                         invoiceId |-> salesReturn.invoiceId,
                                         date |-> salesReturn.date,
                                         totalAmount |-> salesReturn.totalAmount]),
            !.currentSalesReturnId = @ + 1,
            !.salesInvoices =
               MapSet(@, [MapGet(S.salesInvoices, salesReturn.invoiceId) EXCEPT
                            !.outstandingAmount = @ - salesReturn.totalAmount])]

createSalesReturn(S, salesReturn) ==
  [S EXCEPT !.salesReturns = MapSet(@, [id |-> S.currentSalesReturnId,
                                         invoiceId |-> salesReturn.invoiceId,
                                         date |-> salesReturn.date,
                                         totalAmount |-> salesReturn.totalAmount]),
            !.currentSalesReturnId = @ + 1]

createReturnItem(S, item) ==
  [S EXCEPT !.returnItems = MapSet(@, [id |-> S.currentReturnItemId,
                                        returnId |-> item.returnId,
                                        quantity |-> item.quantity,
                                        unitPrice |-> item.unitPrice,
                                        cogsUnit |-> item.cogsUnit,
                                        totalAmount |-> item.totalAmount]),
            !.currentReturnItemId = @ + 1]

getBalanceSheet(S) ==
  LET cashBalance == BalanceOf(S, CashCode)
      arBalance == BalanceOf(S, ReceivableCode)
      inventoryBalance == BalanceOf(S, InventoryCode)
      apBalance == BalanceOf(S, PayableCode)
      scBalance == BalanceOf(S, ShareCapitalCode)
      totalAssets == cashBalance + arBalance + inventoryBalance
      totalLiabilities == apBalance
      totalEquity == scBalance
  IN [ cash |-> cashBalance, accountsReceivable |-> arBalance,
       inventory |-> inventoryBalance, totalAssets |-> totalAssets,
       accountsPayable |-> apBalance, totalLiabilities |-> totalLiabilities,
       shareCapital |-> scBalance, totalEquity |-> totalEquity,
       totalLiabEquity |-> totalLiabilities + totalEquity ]

\* Faulty variant of the statistics: the returns are not taken off the revenue.
StatsOfIgnoringReturns(S, invoices, collections, returns) ==
  LET grossProfit == BalanceOf(S, SalesRevenueCode) - BalanceOf(S, CogsCode)
  IN [ totalSales |-> SumSeq([i \in DOMAIN invoices |-> invoices[i].totalAmount]),
       totalCollections |->
         SumSeq([i \in DOMAIN collections |-> collections[i].amount]),
       totalReturns |-> SumSeq([i \in DOMAIN returns |-> returns[i].totalAmount]),
       outstandingReceivables |->
         SumSeq([i \in DOMAIN invoices |-> invoices[i].outstandingAmount]),
       netIncome |-> grossProfit, grossProfit |-> grossProfit ]

\* getStats from the three lists it fetched and the store it reads at the end:
\* the invoice list holds references, so the invoice fields are those of S.
StatsOf(S, invoices, collections, returns) ==
  LET totalSales == SumSeq([i \in DOMAIN invoices |-> invoices[i].totalAmount])
      totalCollections == SumSeq([i \in DOMAIN collections |-> collections[i].amount])
      totalReturns == SumSeq([i \in DOMAIN returns |-> returns[i].totalAmount])
      outstandingReceivables ==
        SumSeq([i \in DOMAIN invoices |-> invoices[i].outstandingAmount])
      revenue == BalanceOf(S, SalesRevenueCode)
      returnsAmount == BalanceOf(S, SalesReturnsCode)
      cogsAmount == BalanceOf(S, CogsCode)
      netRevenue == revenue - returnsAmount
      grossProfit == netRevenue - cogsAmount
      netIncome == grossProfit
  IN [ totalSales |-> totalSales, totalCollections |-> totalCollections,
       totalReturns |-> totalReturns,
       outstandingReceivables |-> outstandingReceivables,
       netIncome |-> netIncome, grossProfit |-> grossProfit ]

getStats(S) == StatsOf(S, S.salesInvoices, S.collections, S.salesReturns)

\* Array.from(map.entries()): the [key, value] pairs in insertion order.
Entries(m) == [i \in DOMAIN m |-> << m[i].id, m[i] >>]

\* new Map(entries): the pairs are set one after the other, so a key that
\* comes twice keeps its first place and its last value. Every snapshot holds
\* its values under their own id, which is the key the model keeps.
RECURSIVE NewMap(_)
NewMap(entries) ==
  IF entries = <<>> THEN <<>>
  ELSE MapSet(NewMap(SubSeq(entries, 1, Len(entries) - 1)),
              entries[Len(entries)][2])

CounterNames ==
  {"currentAccountId", "currentTransactionId", "currentJournalEntryId",
   "currentSalesInvoiceId", "currentSalesItemId", "currentCollectionId",
   "currentSalesReturnId", "currentReturnItemId"}

\* The snapshot: the eight maps as arrays of pairs, and the counters block,
\* held as <<block>> (<<>> stands for a snapshot that has none). A Date is
\* held as the instant it denotes, which is also what its ISO string in a
\* serialised snapshot parses back to.
exportData(S) ==
  [ accounts |-> Entries(S.accounts),
    transactions |-> Entries(S.transactions),
    journalEntries |-> Entries(S.journalEntries),
    salesInvoices |-> Entries(S.salesInvoices),
    salesItems |-> Entries(S.salesItems),
    collections |-> Entries(S.collections),
    salesReturns |-> Entries(S.salesReturns),
    returnItems |-> Entries(S.returnItems),
    counters |-> << [n \in CounterNames |-> S[n]] >> ]

\* The eight maps are replaced; the counters are left as they are.
ReplaceMaps(S, data) ==
  [S EXCEPT !.accounts = NewMap(data.accounts),
            !.transactions = NewMap(data.transactions),
            !.journalEntries = NewMap(data.journalEntries),
            !.salesInvoices = NewMap(data.salesInvoices),
            !.salesItems = NewMap(data.salesItems),
            !.collections = NewMap(data.collections),
            !.salesReturns = NewMap(data.salesReturns),
            !.returnItems = NewMap(data.returnItems)]

\* Faulty variant of importData: the counters block is never read.
importDataKeepCounters(S, data) == ReplaceMaps(S, data)

\* importData: the counters are taken only if (data.counters).
importData(S, data) ==
  LET T == ReplaceMaps(S, data)
  IN IF data.counters = <<>> THEN T
     ELSE [n \in DOMAIN T |->
             IF n \in CounterNames THEN data.counters[1][n] ELSE T[n]]

\* loadFromFile on the store S: an absent file throws in readFile and the
\* catch leaves the store as constructed; a file is read as importData reads
\* its argument.
loadFromFile(S, f) == IF f = <<>> THEN S ELSE importData(S, f[1])


\* ------------------------------------------------------------ route handlers

\* What a handler leaves behind once it has answered: res.status(s).json(b).
Done(kind, status, body) ==
  [kind |-> kind, pc |-> "done", status |-> status, body |-> body]

\* A ZodError thrown by parse and caught by the handler's catch: status 400.
InvalidData(kind) == Done(kind, 400, [message |-> "ZodError"])

\* Faulty variant of the item schema: zero passes for a positive number.
ItemOkNonNegative(item) ==
  item.quantity >= 0 /\ item.unitPrice >= 0 /\ item.cogsUnit >= 0

ItemOk(item) == item.quantity > 0 /\ item.unitPrice > 0 /\ item.cogsUnit > 0

ItemsOk(items) == Len(items) >= 1 /\ \A i \in DOMAIN items : ItemOk(items[i])

salesFormSchema(data) ==
  /\ data.paymentMethod \in {"cash", "credit"}
  /\ ItemsOk(data.items)

collectionFormSchema(data) == data.amount > 0

returnFormSchema(data) == ItemsOk(data.items)

\* items.reduce((sum, item) => sum + item.quantity * item.unitPrice, 0)
TotalAmountOf(items) ==
  SumSeq([i \in DOMAIN items |-> items[i].quantity * items[i].unitPrice])

\* items.reduce((sum, item) => sum + item.quantity * item.cogsUnit, 0)
TotalCogsOf(items) ==
  SumSeq([i \in DOMAIN items |-> items[i].quantity * items[i].cogsUnit])

JournalLine(transactionId, code, debit, credit, date) ==
  [transactionId |-> transactionId, accountCode |-> code,
   debitAmount |-> debit, creditAmount |-> credit, date |-> date]

\* One turn of the loop of createJournalEntries: the next entry is created,
\* then the loop awaits.  After the last entry the handler goes on to its
\* balance updates.
JournalStep(S, L) ==
  [S |-> createJournalEntry(S, Head(L.journalEntries)),
   L |-> [L EXCEPT !.journalEntries = Tail(@),
                   !.pc = IF Tail(L.journalEntries) = <<>> THEN "read" ELSE "journal"]]

\* The handler reads the account's balance, adds the delta and calls
\* updateAccountBalance, which looks the account up and awaits.
ReadStep(S, L) ==
  LET u == Head(L.updates)
  IN [S |-> S,
      L |-> [L EXCEPT !.account = getAccountByCode(S, u.code),
                      !.balance = BalanceOf(S, u.code) + u.delta,
                      !.pc = "write"]]

\* updateAccountBalance resumes and stores the balance it was called with.
WriteStep(S, L) ==
  [S |-> updateAccountBalanceWrite(S, L.account, L.balance),
   L |-> [L EXCEPT !.updates = Tail(@),
                   !.pc = IF Tail(L.updates) = <<>> THEN "save" ELSE "read"]]

\* saveToFile builds and serialises its snapshot when it is called; the write
\* of the file is pending until WriteFileDone.
SaveStep(S, L) ==
  [S |-> S,
   L |-> [kind |-> L.kind, pc |-> "saving", snapshot |-> exportData(S),
          body |-> L.body]]

\* ---- POST /api/sales

SalesJournal(data, transactionId, totalAmount, totalCOGS) ==
  << JournalLine(transactionId,
                 IF data.paymentMethod = "cash" THEN CashCode ELSE ReceivableCode,
                 totalAmount, 0, data.date),
     JournalLine(transactionId, SalesRevenueCode, 0, totalAmount, data.date),
     JournalLine(transactionId, CogsCode, totalCOGS, 0, data.date),
     JournalLine(transactionId, InventoryCode, 0, totalCOGS, data.date) >>

\* Faulty variant of the sale's balance updates: no roll-up into Share Capital.
SalesUpdatesNoEquity(data, totalAmount, totalCOGS) ==
  << [code |-> IF data.paymentMethod = "cash" THEN CashCode ELSE ReceivableCode,
      delta |-> totalAmount],
     [code |-> InventoryCode, delta |-> 0 - totalCOGS],
     [code |-> SalesRevenueCode, delta |-> totalAmount],
     [code |-> CogsCode, delta |-> totalCOGS] >>

SalesUpdates(data, totalAmount, totalCOGS) ==
  << [code |-> IF data.paymentMethod = "cash" THEN CashCode ELSE ReceivableCode,
      delta |-> totalAmount],
     [code |-> InventoryCode, delta |-> 0 - totalCOGS],
     [code |-> SalesRevenueCode, delta |-> totalAmount],
     [code |-> CogsCode, delta |-> totalCOGS],
     [code |-> ShareCapitalCode, delta |-> totalAmount - totalCOGS] >>

\* The handler up to its first await: parse, the totals, createSalesInvoice.
SalesBegin(S, data) ==
  IF ~salesFormSchema(data) THEN [S |-> S, L |-> InvalidData("sales")]
  ELSE
    LET totalAmount == TotalAmountOf(data.items)
        totalCOGS == TotalCogsOf(data.items)
        cash == data.paymentMethod = "cash"
    IN [S |-> createSalesInvoice(S,
                [invoiceNumber |-> data.invoiceNumber, date |-> data.date,
                 totalAmount |-> totalAmount,
                 paidAmount |-> IF cash THEN totalAmount ELSE 0,
                 outstandingAmount |-> IF cash THEN 0 ELSE totalAmount,
                 paymentMethod |-> data.paymentMethod,
                 status |-> IF cash THEN "paid" ELSE "open"]),
        L |-> [kind |-> "sales", pc |-> "items", data |-> data,
               totalAmount |-> totalAmount, totalCOGS |-> totalCOGS,
               invoice |-> S.currentSalesInvoiceId, i |-> 1,
               journalEntries |-> <<>>, updates |-> <<>>,
               account |-> <<>>, balance |-> 0,
               body |-> [success |-> TRUE, id |-> S.currentSalesInvoiceId]]]

SalesSegment(S, L) ==
  CASE L.pc = "items" ->
         LET item == L.data.items[L.i]
         IN [S |-> createSalesItem(S,
                     [invoiceId |-> L.invoice, quantity |-> item.quantity,
                      unitPrice |-> item.unitPrice, cogsUnit |-> item.cogsUnit,
                      totalAmount |-> item.quantity * item.unitPrice]),
             L |-> [L EXCEPT !.i = @ + 1,
                             !.pc = IF L.i < Len(L.data.items)
                                      THEN "items" ELSE "transaction"]]
    [] L.pc = "transaction" ->
         [S |-> createTransaction(S, [date |-> L.data.date, type |-> "sale",
                                      totalAmount |-> L.totalAmount]),
          L |-> [L EXCEPT !.journalEntries =
                            SalesJournal(L.data, S.currentTransactionId,
                                         L.totalAmount, L.totalCOGS),
                          !.updates = SalesUpdates(L.data, L.totalAmount, L.totalCOGS),
                          !.pc = "journal"]]
    [] L.pc = "journal" -> JournalStep(S, L)
    [] L.pc = "read" -> ReadStep(S, L)
    [] L.pc = "write" -> WriteStep(S, L)
    [] L.pc = "save" -> SaveStep(S, L)

\* ---- POST /api/collections

\* Faulty variant of the collection's entries: the credit line is missing.
CollectionsJournalDebitOnly(data, transactionId) ==
  << JournalLine(transactionId, CashCode, data.amount, 0, data.date) >>

CollectionsJournal(data, transactionId) ==
  << JournalLine(transactionId, CashCode, data.amount, 0, data.date),
     JournalLine(transactionId, ReceivableCode, 0, data.amount, data.date) >>

\* Faulty variant of the collection's balance updates: Accounts Receivable is
\* not reduced.
CollectionsUpdatesCashOnly(data) ==
  << [code |-> CashCode, delta |-> data.amount] >>

CollectionsUpdates(data) ==
  << [code |-> CashCode, delta |-> data.amount],
     [code |-> ReceivableCode, delta |-> 0 - data.amount] >>

\* Faulty variant of the check below: no amount is ever too large.
ExceedsNothing(amount, currentOutstanding) == FALSE

\* if (amount > currentOutstanding)
ExceedsOutstanding(amount, currentOutstanding) == amount > currentOutstanding

\* The handler up to its first await: parse and the lookup of the invoice.
CollectionsBegin(S, data) ==
  IF ~collectionFormSchema(data) THEN [S |-> S, L |-> InvalidData("collections")]
  ELSE [S |-> S,
        L |-> [kind |-> "collections", pc |-> "check", data |-> data,
               invoice |-> getSalesInvoiceById(S, data.invoiceId),
               currentOutstanding |-> 0,
               journalEntries |-> <<>>, updates |-> <<>>,
               account |-> <<>>, balance |-> 0,
               body |-> [success |-> TRUE, id |-> 0]]]

CollectionsSegment(S, L) ==
  CASE L.pc = "check" ->
         IF L.invoice = <<>>
           THEN [S |-> S,
                 L |-> Done("collections", 404, [message |-> "Invoice not found"])]
         ELSE
           \* invoice is a reference: its fields are those the store holds now
           LET invoice == MapGet(S.salesInvoices, L.invoice[1].id)
               currentOutstanding == invoice.outstandingAmount
           IN IF ExceedsOutstanding(L.data.amount, currentOutstanding)
                THEN [S |-> S,
                      L |-> Done("collections", 400,
                                 [message |-> "Collection amount exceeds outstanding balance"])]
                ELSE [S |-> createCollection(S,
                              [invoiceId |-> L.data.invoiceId, date |-> L.data.date,
                               amount |-> L.data.amount]),
                      L |-> [L EXCEPT !.currentOutstanding = currentOutstanding,
                                      !.body = [success |-> TRUE,
                                                id |-> S.currentCollectionId],
                                      !.pc = "payment"]]
    [] L.pc = "payment" ->
         LET invoice == MapGet(S.salesInvoices, L.invoice[1].id)
             newPaidAmount == invoice.paidAmount + L.data.amount
             newOutstandingAmount == L.currentOutstanding - L.data.amount
             newStatus == IF newOutstandingAmount = 0 THEN "paid" ELSE "partial"
         IN [S |-> updateSalesInvoicePayment(S, L.data.invoiceId, newPaidAmount,
                                             newOutstandingAmount, newStatus),
             L |-> [L EXCEPT !.pc = "transaction"]]
    [] L.pc = "transaction" ->
         [S |-> createTransaction(S, [date |-> L.data.date, type |-> "collection",
                                      totalAmount |-> L.data.amount]),
          L |-> [L EXCEPT !.journalEntries =
                            CollectionsJournal(L.data, S.currentTransactionId),
                          !.updates = CollectionsUpdates(L.data),
                          !.pc = "journal"]]
    [] L.pc = "journal" -> JournalStep(S, L)
    [] L.pc = "read" -> ReadStep(S, L)
    [] L.pc = "write" -> WriteStep(S, L)
    [] L.pc = "save" -> SaveStep(S, L)

\* ---- POST /api/sales-returns

ReturnsJournal(data, paymentMethod, transactionId, totalReturnAmount, totalReturnCOGS) ==
  << JournalLine(transactionId, SalesReturnsCode, totalReturnAmount, 0, data.date),
     JournalLine(transactionId,
                 IF paymentMethod = "cash" THEN CashCode ELSE ReceivableCode,
                 0, totalReturnAmount, data.date),
     JournalLine(transactionId, InventoryCode, totalReturnCOGS, 0, data.date),
     JournalLine(transactionId, CogsCode, 0, totalReturnCOGS, data.date) >>

\* Faulty variant of the return's balance updates: the refund always leaves
\* Cash, whatever the invoice's payment method.
ReturnsUpdatesFromCash(paymentMethod, totalReturnAmount, totalReturnCOGS) ==
  << [code |-> CashCode, delta |-> 0 - totalReturnAmount],
     [code |-> InventoryCode, delta |-> totalReturnCOGS],
     [code |-> SalesReturnsCode, delta |-> totalReturnAmount],
     [code |-> CogsCode, delta |-> 0 - totalReturnCOGS],
     [code |-> ShareCapitalCode, delta |-> 0 - (totalReturnAmount - totalReturnCOGS)] >>

ReturnsUpdates(paymentMethod, totalReturnAmount, totalReturnCOGS) ==
  << [code |-> IF paymentMethod = "cash" THEN CashCode ELSE ReceivableCode,
      delta |-> 0 - totalReturnAmount],
     [code |-> InventoryCode, delta |-> totalReturnCOGS],
     [code |-> SalesReturnsCode, delta |-> totalReturnAmount],
     [code |-> CogsCode, delta |-> 0 - totalReturnCOGS],
     [code |-> ShareCapitalCode, delta |-> 0 - (totalReturnAmount - totalReturnCOGS)] >>

\* Faulty variant of the return handler: a return of more than the invoice's
\* total is turned down.
ReturnsBeginCapped(S, data) ==
  IF ~returnFormSchema(data) THEN [S |-> S, L |-> InvalidData("sales-returns")]
  ELSE IF /\ MapHas(S.salesInvoices, data.invoiceId)
          /\ TotalAmountOf(data.items)
               > MapGet(S.salesInvoices, data.invoiceId).totalAmount
    THEN [S |-> S,
          L |-> Done("sales-returns", 400, [message |-> "Return exceeds invoice"])]
  ELSE [S |-> S,
        L |-> [kind |-> "sales-returns", pc |-> "check", data |-> data,
               invoice |-> getSalesInvoiceById(S, data.invoiceId),
               totalReturnAmount |-> 0, totalReturnCOGS |-> 0,
               salesReturn |-> 0, i |-> 1,
               journalEntries |-> <<>>, updates |-> <<>>,
               account |-> <<>>, balance |-> 0,
               body |-> [success |-> TRUE, id |-> 0]]]

\* The handler up to its first await: parse and the lookup of the invoice.
ReturnsBegin(S, data) ==
  IF ~returnFormSchema(data) THEN [S |-> S, L |-> InvalidData("sales-returns")]
  ELSE [S |-> S,
        L |-> [kind |-> "sales-returns", pc |-> "check", data |-> data,
               invoice |-> getSalesInvoiceById(S, data.invoiceId),
               totalReturnAmount |-> 0, totalReturnCOGS |-> 0,
               salesReturn |-> 0, i |-> 1,
               journalEntries |-> <<>>, updates |-> <<>>,
               account |-> <<>>, balance |-> 0,
               body |-> [success |-> TRUE, id |-> 0]]]

ReturnsSegment(S, L) ==
  CASE L.pc = "check" ->
         IF L.invoice = <<>>
           THEN [S |-> S,
                 L |-> Done("sales-returns", 404, [message |-> "Invoice not found"])]
         ELSE
           LET totalReturnAmount == TotalAmountOf(L.data.items)
               totalReturnCOGS == TotalCogsOf(L.data.items)
           IN [S |-> createSalesReturn(S,
                       [invoiceId |-> L.data.invoiceId, date |-> L.data.date,
                        totalAmount |-> totalReturnAmount]),
               L |-> [L EXCEPT !.totalReturnAmount = totalReturnAmount,
                               !.totalReturnCOGS = totalReturnCOGS,
                               !.salesReturn = S.currentSalesReturnId,
                               !.body = [success |-> TRUE,
                                         id |-> S.currentSalesReturnId],
                               !.pc = "items"]]
    [] L.pc = "items" ->
         LET item == L.data.items[L.i]
         IN [S |-> createReturnItem(S,
                     [returnId |-> L.salesReturn, quantity |-> item.quantity,
                      unitPrice |-> item.unitPrice, cogsUnit |-> item.cogsUnit,
                      totalAmount |-> item.quantity * item.unitPrice]),
             L |-> [L EXCEPT !.i = @ + 1,
                             !.pc = IF L.i < Len(L.data.items)
                                      THEN "items" ELSE "transaction"]]
    [] L.pc = "transaction" ->
         [S |-> createTransaction(S, [date |-> L.data.date, type |-> "return",
                                      totalAmount |-> L.totalReturnAmount]),
          L |-> [L EXCEPT !.journalEntries =
                            ReturnsJournal(L.data, L.invoice[1].paymentMethod,
                                           S.currentTransactionId,
                                           L.totalReturnAmount, L.totalReturnCOGS),
                          !.updates = ReturnsUpdates(L.invoice[1].paymentMethod,
                                                     L.totalReturnAmount,
                                                     L.totalReturnCOGS),
                          !.pc = "journal"]]
    [] L.pc = "journal" -> JournalStep(S, L)
    [] L.pc = "read" -> ReadStep(S, L)
    [] L.pc = "write" -> WriteStep(S, L)
    [] L.pc = "save" -> SaveStep(S, L)

\* ---- GET /api/balance-sheet, GET /api/stats

\* getBalanceSheet awaits its five lookups and then reads the five balances
\* in one go, so the handler has one reading segment.
BalanceSheetBegin(S) == [S |-> S, L |-> [kind |-> "balance-sheet", pc |-> "read"]]

\* Faulty variant of the report: the income of the period is rolled into Share
\* Capital as the sheet is read.
BalanceSheetSegmentRolling(S, L) ==
  [S |-> updateAccountBalance(S, ShareCapitalCode,
                              BalanceOf(S, ShareCapitalCode)
                                + BalanceOf(S, SalesRevenueCode)),
   L |-> Done("balance-sheet", 200, getBalanceSheet(S))]

BalanceSheetSegment(S, L) ==
  [S |-> S, L |-> Done("balance-sheet", 200, getBalanceSheet(S))]

IdsOf(m) == [i \in DOMAIN m |-> m[i].id]

\* getStats fetches the invoices, the collections and the returns in three
\* awaits and computes its sums after the last lookup.
StatsBegin(S) ==
  [S |-> S,
   L |-> [kind |-> "stats", pc |-> "collections",
          invoices |-> IdsOf(S.salesInvoices),
          collections |-> <<>>, returns |-> <<>>]]

StatsSegment(S, L) ==
  CASE L.pc = "collections" ->
         [S |-> S, L |-> [L EXCEPT !.collections = S.collections, !.pc = "returns"]]
    [] L.pc = "returns" ->
         [S |-> S, L |-> [L EXCEPT !.returns = S.salesReturns, !.pc = "read"]]
    [] L.pc = "read" ->
         [S |-> S,
          L |-> Done("stats", 200,
                     StatsOf(S, [i \in DOMAIN L.invoices |->
                                   MapGet(S.salesInvoices, L.invoices[i])],
                             L.collections, L.returns))]

\* ---- running a handler

Segment(S, L) ==
  CASE L.kind = "sales" -> SalesSegment(S, L)
    [] L.kind = "collections" -> CollectionsSegment(S, L)
    [] L.kind = "sales-returns" -> ReturnsSegment(S, L)
    [] L.kind = "balance-sheet" -> BalanceSheetSegment(S, L)
    [] L.kind = "stats" -> StatsSegment(S, L)

\* A handler that has answered, or that waits for its file write.
Parked(L) == L.pc \in {"idle", "done", "saving"}

\* The handler run with no other request in flight: segment after segment up
\* to its answer or to the pending file write.
RECURSIVE Run(_)
Run(SL) == IF Parked(SL.L) THEN SL ELSE Run(Segment(SL.S, SL.L))


\* ------------------------------------------------------------------- state

VARIABLES
  storage,  \* the MemStorage instance: its eight maps and eight id counters
  file,     \* accounting_data.json: <<>> when absent, else <<its content>>
  req,      \* per request slot, the handler's position and locals, or its answer
  call      \* the last call made on the store directly (SpecApi), and its outcome;
            \* the snapshot the client last downloaded (SpecSnapshot)

vars == <<storage, file, req, call>>

Reqs == 1..MaxRequests

Idle == [kind |-> "none", pc |-> "idle"]

NoCall == [op |-> "none"]

Init ==
  /\ storage = NewMemStorage
  /\ file = <<>>
  /\ req = [r \in Reqs |-> Idle]
  /\ call = NoCall

\* Events accepted so far: each creates one invoice, collection or return.
Accepted(S) == Len(S.salesInvoices) + Len(S.collections) + Len(S.salesReturns)

\* ------------------------------------------------------------------ inputs

Dates == {1}
ItemChoices ==
  { [quantity |-> 2, unitPrice |-> 25, cogsUnit |-> 10],
    [quantity |-> 0, unitPrice |-> 25, cogsUnit |-> 10] }
ItemLists == UNION {[1..n -> ItemChoices] : n \in 0..MaxItems}
Amounts == {0, 20, 30, 50}
InvoiceIds == 1..MaxEvents

SalesInputs ==
  [invoiceNumber : 1..MaxInvoiceNumber, date : Dates,
   paymentMethod : {"cash", "credit"}, items : ItemLists]
CollectionInputs == [invoiceId : InvoiceIds, date : Dates, amount : Amounts]
ReturnInputs == [invoiceId : InvoiceIds, date : Dates, items : ItemLists]

\* ---------------------------------------------- one request at a time (Spec)

\* fs.writeFile settles: the file takes the snapshot, or the write fails and
\* the rejection lands in the handler's catch.
Answer(L, ok) ==
  IF ok THEN Done(L.kind, 200, L.body) ELSE Done(L.kind, 400, [message |-> "EIO"])

\* The whole handler, from the request to its answer, nothing else in flight.
\* ok tells whether the file write succeeds; max bounds the accepted events.
Handle(begin, ok, max) ==
  \E e \in {Run(begin)} :
     /\ e.L.pc = "done" \/ Accepted(storage) < max
     /\ storage' = e.S
     /\ IF e.L.pc = "done"
          THEN /\ file' = file
               /\ req' = [req EXCEPT ![1] = e.L]
          ELSE /\ file' = IF ok THEN <<e.L.snapshot>> ELSE file
               /\ req' = [req EXCEPT ![1] = Answer(e.L, ok)]
     /\ call' = call

PostSales(data, ok, max) == Handle(SalesBegin(storage, data), ok, max)

PostCollections(data, ok, max) == Handle(CollectionsBegin(storage, data), ok, max)

PostSalesReturns(data, ok, max) == Handle(ReturnsBegin(storage, data), ok, max)

GetBalanceSheet == Handle(BalanceSheetBegin(storage), TRUE, MaxEvents)

GetStats == Handle(StatsBegin(storage), TRUE, MaxEvents)

\* Requests arrive one after the other's answer and every file write succeeds.
Next ==
  \/ \E data \in SalesInputs : PostSales(data, TRUE, MaxEvents)
  \/ \E data \in CollectionInputs : PostCollections(data, TRUE, MaxEvents)
  \/ \E data \in ReturnInputs : PostSalesReturns(data, TRUE, MaxEvents)
  \/ GetBalanceSheet
  \/ GetStats

Spec == Init /\ [][Next]_vars

\* ------------------------------------------- file writes that may fail (SpecIo)

\* One request at a time; fs.writeFile may reject (disk full, no permission).
NextIo ==
  \/ \E data \in SalesInputs, ok \in BOOLEAN : PostSales(data, ok, MaxIoEvents)
  \/ \E data \in CollectionInputs, ok \in BOOLEAN :
        PostCollections(data, ok, MaxIoEvents)
  \/ \E data \in ReturnInputs, ok \in BOOLEAN :
        PostSalesReturns(data, ok, MaxIoEvents)

SpecIo == Init /\ [][NextIo]_vars

\* ------------------------------------- requests in flight together (SpecConc)

ConcItemLists == { << [quantity |-> 2, unitPrice |-> 25, cogsUnit |-> 10] >> }
ConcSalesInputs ==
  [invoiceNumber : {1}, date : Dates, paymentMethod : {"cash"},
   items : ConcItemLists]
ConcCollectionInputs == [invoiceId : {1}, date : Dates, amount : {30}]
ConcReturnInputs == [invoiceId : {1}, date : Dates, items : ConcItemLists]

InFlight(r) == req[r].pc \notin {"idle", "done"}

\* Each slot serves one request of the run; the slots are taken in order and
\* at most MaxInFlight requests are in flight together.
CanBegin(r) ==
  /\ req[r].pc = "idle"
  /\ \A q \in Reqs : q < r => req[q].pc # "idle"
  /\ Cardinality({q \in Reqs : InFlight(q)}) < MaxInFlight

\* A request arrives and its handler runs up to its first await.
Begin(r, begin) ==
  /\ CanBegin(r)
  /\ storage' = begin.S
  /\ req' = [req EXCEPT ![r] = begin.L]
  /\ file' = file
  /\ call' = call

BeginSales(r, data) == Begin(r, SalesBegin(storage, data))

BeginCollections(r, data) == Begin(r, CollectionsBegin(storage, data))

BeginSalesReturns(r, data) == Begin(r, ReturnsBegin(storage, data))

BeginBalanceSheet(r) == Begin(r, BalanceSheetBegin(storage))

BeginStats(r) == Begin(r, StatsBegin(storage))

\* A handler that awaits gets its turn and runs to its next await.
Resume(r) ==
  /\ ~Parked(req[r])
  /\ \E n \in {Segment(storage, req[r])} :
       /\ storage' = n.S
       /\ req' = [req EXCEPT ![r] = n.L]
  /\ file' = file
  /\ call' = call

\* The file write of a handler settles and the handler answers.
WriteFileDone(r, ok) ==
  /\ req[r].pc = "saving"
  /\ file' = IF ok THEN <<req[r].snapshot>> ELSE file
  /\ req' = [req EXCEPT ![r] = Answer(req[r], ok)]
  /\ storage' = storage
  /\ call' = call

NextConc ==
  \/ \E r \in Reqs, data \in ConcSalesInputs : BeginSales(r, data)
  \/ \E r \in Reqs, data \in ConcCollectionInputs : BeginCollections(r, data)
  \/ \E r \in Reqs, data \in ConcReturnInputs : BeginSalesReturns(r, data)
  \/ \E r \in Reqs : BeginBalanceSheet(r)
  \/ \E r \in Reqs : BeginStats(r)
  \/ \E r \in Reqs : Resume(r)
  \/ \E r \in Reqs : WriteFileDone(r, TRUE)

\* The overlapping requests meet a store that holds one credit invoice: the
\* state a first credit sale, served alone, leaves behind.
FirstSale ==
  Run(SalesBegin(NewMemStorage,
                 [invoiceNumber |-> 1, date |-> 1, paymentMethod |-> "credit",
                  items |-> << [quantity |-> 2, unitPrice |-> 25, cogsUnit |-> 10] >>]))

InitConc ==
  /\ storage = FirstSale.S
  /\ file = <<FirstSale.L.snapshot>>
  /\ req = [r \in Reqs |-> Idle]
  /\ call = NoCall

SpecConc == InitConc /\ [][NextConc]_vars


\* --------------------------------- the store's methods called directly (SpecApi)

\* validateJournalEntry of the accounting utilities: Math.abs(d - c) < 0.01,
\* which for whole amounts is d = c.  Nothing in the server calls it.
validateJournalEntry(debits, credits) == debits = credits

TotalDebits(entries) == SumSeq([i \in DOMAIN entries |-> entries[i].debitAmount])

TotalCredits(entries) == SumSeq([i \in DOMAIN entries |-> entries[i].creditAmount])

ApiEntries ==
  [transactionId : {1}, accountCode : {CashCode, SalesRevenueCode},
   debitAmount : {0, 50}, creditAmount : {0, 50}, date : Dates]
ApiBatches == UNION {[1..n -> ApiEntries] : n \in 1..2}
ApiCodes == {CashCode, ReceivableCode, "9999"}
ApiBalances == {0, 100}

\* await storage.createJournalEntries(entries): the promise resolves with the
\* new entries whatever the batch holds.
CallCreateJournalEntries(entries) ==
  /\ Len(storage.journalEntries) + Len(entries) <= MaxJournal
  /\ storage' = createJournalEntries(storage, entries)
  /\ call' = [op |-> "createJournalEntries", entries |-> entries,
              before |-> Len(storage.journalEntries), outcome |-> "resolved"]
  /\ UNCHANGED <<file, req>>

\* await storage.updateAccountBalance(code, balance): the promise resolves
\* whether or not an account has the code.
CallUpdateAccountBalance(code, balance) ==
  /\ storage' = updateAccountBalance(storage, code, balance)
  /\ call' = [op |-> "updateAccountBalance", code |-> code, balance |-> balance,
              found |-> getAccountByCode(storage, code) # <<>>,
              outcome |-> "resolved"]
  /\ UNCHANGED <<file, req>>

NextApi ==
  \/ \E entries \in ApiBatches : CallCreateJournalEntries(entries)
  \/ \E code \in ApiCodes, balance \in ApiBalances :
       CallUpdateAccountBalance(code, balance)

SpecApi == Init /\ [][NextApi]_vars


\* ----------------------------------------------------------------- properties

\* No request is being handled: every request that arrived has its answer.
Quiescent == \A r \in Reqs : ~InFlight(r)

EntriesOf(S, transactionId) ==
  SelectSeq(S.journalEntries, LAMBDA e : e.transactionId = transactionId)

\* C1  Accounting equation: once the events that arrived are processed, the
\* balance sheet has totalAssets (Cash + Accounts Receivable + Inventory)
\* equal to totalLiabEquity (Accounts Payable + Share Capital).
AccountingEquation ==
  Quiescent =>
    getBalanceSheet(storage).totalAssets = getBalanceSheet(storage).totalLiabEquity

\* C2  Journal balance: for every transaction a sale, a collection or a return
\* created, the debits of the journal entries that carry its id sum to the
\* same amount as their credits.
JournalBalance ==
  Quiescent =>
    \A i \in DOMAIN storage.transactions :
       LET entries == EntriesOf(storage, storage.transactions[i].id)
       IN TotalDebits(entries) = TotalCredits(entries)

\* A sale, a collection and a return have each posted their entries.
JournalBalanceWitness ==
  /\ Quiescent
  /\ {storage.transactions[i].type : i \in DOMAIN storage.transactions}
       = {"sale", "collection", "return"}
  /\ \A i \in DOMAIN storage.transactions :
       TotalDebits(EntriesOf(storage, storage.transactions[i].id)) > 0

\* C3  Invoice consistency: in every state every invoice has paidAmount +
\* outstandingAmount = totalAmount, and its status is paid when nothing is
\* outstanding, partial when part of the total is, open when all of it is.
InvoiceConsistency ==
  \A i \in DOMAIN storage.salesInvoices :
     LET invoice == storage.salesInvoices[i]
     IN /\ invoice.paidAmount + invoice.outstandingAmount = invoice.totalAmount
        /\ invoice.outstandingAmount = 0 => invoice.status = "paid"
        /\ (0 < invoice.outstandingAmount
             /\ invoice.outstandingAmount < invoice.totalAmount)
             => invoice.status = "partial"
        /\ invoice.outstandingAmount = invoice.totalAmount
             => invoice.status = "open"

ExceedsMessage == [message |-> "Collection amount exceeds outstanding balance"]

\* C4  Collection bound: a collection of more than the invoice's outstanding
\* amount is answered with status 400 and the exceeds message, and the store
\* (balances, invoice fields, journal, transactions, collections) and the file
\* are as they were.
CollectionBound ==
  [][\A data \in CollectionInputs :
       ( /\ collectionFormSchema(data)
         /\ MapHas(storage.salesInvoices, data.invoiceId)
         /\ data.amount
              > MapGet(storage.salesInvoices, data.invoiceId).outstandingAmount
         /\ PostCollections(data, TRUE, MaxEvents) )
       => /\ req'[1] = Done("collections", 400, ExceedsMessage)
          /\ storage' = storage
          /\ file' = file]_vars

\* A collection was refused for its amount on an invoice that an earlier
\* collection had already paid in part.
CollectionBoundWitness ==
  /\ req[1] = Done("collections", 400, ExceedsMessage)
  /\ \E i \in DOMAIN storage.salesInvoices :
       storage.salesInvoices[i].status = "partial"


\* ---- requests in flight together

ConcEvents ==
  {[kind |-> "sales", data |-> d] : d \in ConcSalesInputs}
    \cup {[kind |-> "collections", data |-> d] : d \in ConcCollectionInputs}
    \cup {[kind |-> "sales-returns", data |-> d] : d \in ConcReturnInputs}

\* The store an event leaves behind when its handler runs alone.
RunEvent(S, e) ==
  Run(CASE e.kind = "sales" -> SalesBegin(S, e.data)
        [] e.kind = "collections" -> CollectionsBegin(S, e.data)
        [] e.kind = "sales-returns" -> ReturnsBegin(S, e.data)).S

\* The stores that up to n events, handled one after the other, lead to.
RECURSIVE SerialStores(_)
SerialStores(n) ==
  IF n = 0 THEN {FirstSale.S}
  ELSE LET before == SerialStores(n - 1)
       IN before \cup {RunEvent(S, e) : S \in before, e \in ConcEvents}

\* The account balances and the invoices' payment fields of a store.
Ledger(S) ==
  [balances |-> [i \in DOMAIN S.accounts |-> S.accounts[i].balance],
   invoices |-> [i \in DOMAIN S.salesInvoices |->
                   [totalAmount |-> S.salesInvoices[i].totalAmount,
                    paidAmount |-> S.salesInvoices[i].paidAmount,
                    outstandingAmount |-> S.salesInvoices[i].outstandingAmount,
                    status |-> S.salesInvoices[i].status]]]

SerialLedgers == {Ledger(S) : S \in SerialStores(MaxRequests)}

\* C5  Event atomicity: once the events that were in flight together are
\* processed, the account balances and the invoice fields are those of the
\* events handled one after the other in some order; no update of a balance
\* is lost.
EventAtomicity == Quiescent => Ledger(storage) \in SerialLedgers

SerialStats == {getStats(S) : S \in SerialStores(MaxRequests)}

\* C6  Consistent reads: the statistics a getStats call returns while events
\* are in flight are those of a store before or after whole events, never of
\* an event applied in part.
ConsistentReads ==
  \A r \in Reqs :
     (req[r].kind = "stats" /\ req[r].pc = "done") => req[r].body \in SerialStats

\* ---- file writes that may fail

\* C7  Atomic abort: a sale, a collection or a return that is answered with an
\* error, whatever the cause, leaves the store as it was before the request.
AtomicAbort ==
  [][(req'[1].pc = "done" /\ req'[1].status # 200) => storage' = storage]_vars

\* ---- the store's methods called directly

\* C8  Journal guard: createJournalEntries on a batch whose debits and credits
\* differ fails with UnbalancedEntryError and appends none of its entries.
JournalGuard ==
  ( /\ call.op = "createJournalEntries"
    /\ ~validateJournalEntry(TotalDebits(call.entries), TotalCredits(call.entries)) )
  => /\ call.outcome = "UnbalancedEntryError"
     /\ Len(storage.journalEntries) = call.before

\* C9  Unknown account: updateAccountBalance for a code that no account has
\* fails with UnknownAccountError.
UnknownAccount ==
  (call.op = "updateAccountBalance" /\ ~call.found)
  => call.outcome = "UnknownAccountError"

\* ---- not found

NotFoundMessage == [message |-> "Invoice not found"]

\* C10  Not found: a collection or a return for an invoiceId that no invoice
\* has is answered with status 404 "Invoice not found"; no collection, return,
\* return item, transaction or journal entry is created, and no balance and no
\* id counter changes.
NotFound ==
  [][ /\ \A data \in CollectionInputs :
           ( /\ collectionFormSchema(data)
             /\ ~MapHas(storage.salesInvoices, data.invoiceId)
             /\ PostCollections(data, TRUE, MaxEvents) )
           => /\ req'[1] = Done("collections", 404, NotFoundMessage)
              /\ storage' = storage
              /\ file' = file
      /\ \A data \in ReturnInputs :
           ( /\ returnFormSchema(data)
             /\ ~MapHas(storage.salesInvoices, data.invoiceId)
             /\ PostSalesReturns(data, TRUE, MaxEvents) )
           => /\ req'[1] = Done("sales-returns", 404, NotFoundMessage)
              /\ storage' = storage
              /\ file' = file ]_vars

\* A return was refused for its invoiceId by a store that holds invoices and
\* has accepted a return before.
NotFoundWitness ==
  /\ req[1] = Done("sales-returns", 404, NotFoundMessage)
  /\ storage.salesInvoices # <<>>
  /\ storage.salesReturns # <<>>

\* ------------------------------------------ bodies that may be invalid (SpecForms)

\* A valid item and the items that have one field zero or negative.
FormItemChoices ==
  { [quantity |-> q, unitPrice |-> 25, cogsUnit |-> 10] : q \in {-2, 0, 2} }
    \cup { [quantity |-> 2, unitPrice |-> u, cogsUnit |-> 10] : u \in {-25, 0} }
    \cup { [quantity |-> 2, unitPrice |-> 25, cogsUnit |-> c] : c \in {-10, 0} }
FormItemLists == UNION {[1..n -> FormItemChoices] : n \in 0..MaxItems}
FormInvoiceIds == 1..MaxFormEvents
FormSalesInputs ==
  [invoiceNumber : {1}, date : Dates, paymentMethod : {"cash", "credit"},
   items : FormItemLists]
FormCollectionInputs ==
  [invoiceId : FormInvoiceIds, date : Dates, amount : {-30, 0, 30}]
FormReturnInputs == [invoiceId : FormInvoiceIds, date : Dates, items : FormItemLists]

NextForms ==
  \/ \E data \in FormSalesInputs : PostSales(data, TRUE, MaxFormEvents)
  \/ \E data \in FormCollectionInputs : PostCollections(data, TRUE, MaxFormEvents)
  \/ \E data \in FormReturnInputs : PostSalesReturns(data, TRUE, MaxFormEvents)

SpecForms == Init /\ [][NextForms]_vars

\* An empty item list, or an item with a quantity, unit price or unit cost
\* that is zero or negative.
BadItems(items) ==
  \/ Len(items) = 0
  \/ \E i \in DOMAIN items :
       items[i].quantity <= 0 \/ items[i].unitPrice <= 0 \/ items[i].cogsUnit <= 0

\* Every journal line posts a positive amount on one side and nothing on the
\* other.
PositivePostings(S) ==
  \A i \in DOMAIN S.journalEntries :
     LET e == S.journalEntries[i]
     IN /\ e.debitAmount >= 0
        /\ e.creditAmount >= 0
        /\ e.debitAmount + e.creditAmount > 0

\* C11  Validation: from every store, a sale or a return whose item list is
\* empty or holds an item with a zero or negative quantity, unit price or
\* unit cost, and a collection whose amount is zero or negative, is answered
\* with status 400 by the parse, before the store is touched or saved; and no
\* journal line ever posts a zero or negative amount.
Validation ==
  /\ \A data \in FormSalesInputs :
        BadItems(data.items)
        => Run(SalesBegin(storage, data))
             = [S |-> storage, L |-> Done("sales", 400, [message |-> "ZodError"])]
  /\ \A data \in FormReturnInputs :
        BadItems(data.items)
        => Run(ReturnsBegin(storage, data))
             = [S |-> storage,
                L |-> Done("sales-returns", 400, [message |-> "ZodError"])]
  /\ \A data \in FormCollectionInputs :
        data.amount <= 0
        => Run(CollectionsBegin(storage, data))
             = [S |-> storage,
                L |-> Done("collections", 400, [message |-> "ZodError"])]
  /\ PositivePostings(storage)

\* A return was refused by the parse on a store that holds an invoice with
\* its journal lines.
ValidationWitness ==
  /\ req[1] = Done("sales-returns", 400, [message |-> "ZodError"])
  /\ storage.salesInvoices # <<>>
  /\ storage.journalEntries # <<>>

\* ------------------------------------------------------------ posting rules

AccountCodes == {defaultAccounts[i].code : i \in DOMAIN defaultAccounts}

\* What a journal line posts: its account and its two amounts.
Posting(e) ==
  [accountCode |-> e.accountCode, debitAmount |-> e.debitAmount,
   creditAmount |-> e.creditAmount]

Debit(code, amount) ==
  [accountCode |-> code, debitAmount |-> amount, creditAmount |-> 0]

Credit(code, amount) ==
  [accountCode |-> code, debitAmount |-> 0, creditAmount |-> amount]

\* The journal of T is the journal of S followed by the given postings, all
\* under one transaction id.
Appended(S, T, postings) ==
  /\ Len(T.journalEntries) = Len(S.journalEntries) + Len(postings)
  /\ SubSeq(T.journalEntries, 1, Len(S.journalEntries)) = S.journalEntries
  /\ \A i \in DOMAIN postings :
       /\ Posting(T.journalEntries[Len(S.journalEntries) + i]) = postings[i]
       /\ T.journalEntries[Len(S.journalEntries) + i].transactionId
            = T.journalEntries[Len(S.journalEntries) + 1].transactionId

\* From S to T the balances change by delta[code] where delta has the code
\* and stay as they are elsewhere.
BalancesChange(S, T, delta) ==
  \A code \in AccountCodes :
     BalanceOf(T, code) - BalanceOf(S, code)
       = IF code \in DOMAIN delta THEN delta[code] ELSE 0

SaleRuleHolds(S, T, data) ==
  LET A == SumSeq([i \in DOMAIN data.items |->
                     data.items[i].quantity * data.items[i].unitPrice])
      C == SumSeq([i \in DOMAIN data.items |->
                     data.items[i].quantity * data.items[i].cogsUnit])
      cash == data.paymentMethod = "cash"
      paidInto == IF cash THEN CashCode ELSE ReceivableCode
      invoice == T.salesInvoices[Len(T.salesInvoices)]
  IN /\ Appended(S, T, << Debit(paidInto, A), Credit(SalesRevenueCode, A),
                          Debit(CogsCode, C), Credit(InventoryCode, C) >>)
     /\ BalancesChange(S, T,
          (paidInto :> A) @@ (SalesRevenueCode :> A) @@ (CogsCode :> C)
            @@ (InventoryCode :> 0 - C) @@ (ShareCapitalCode :> A - C))
     /\ Len(T.salesInvoices) = Len(S.salesInvoices) + 1
     /\ invoice.totalAmount = A
     /\ invoice.status = IF cash THEN "paid" ELSE "open"
     /\ invoice.outstandingAmount = IF cash THEN 0 ELSE A
     /\ invoice.paidAmount = IF cash THEN A ELSE 0

\* C12  Sale rule: from every store, a sale of total A and cost C, handled
\* alone, appends the four lines debit Cash (cash) or Accounts Receivable
\* (credit) A, credit Sales Revenue A, debit Cost of Goods Sold C, credit
\* Inventory C; changes those balances by +A, +A, +C, -C and Share Capital by
\* +(A - C), with no journal line for Share Capital, and no other balance;
\* and creates the invoice paid with nothing outstanding (cash) or open with
\* A outstanding (credit).
SaleRule ==
  \A data \in SalesInputs :
     salesFormSchema(data)
     => SaleRuleHolds(storage, Run(SalesBegin(storage, data)).S, data)

\* A cash sale was accepted after a credit sale.
SaleRuleWitness ==
  /\ req[1].kind = "sales" /\ req[1].pc = "done" /\ req[1].status = 200
  /\ Len(storage.salesInvoices) = 2
  /\ storage.salesInvoices[1].status = "open"
  /\ storage.salesInvoices[2].status = "paid"

CollectionRuleHolds(S, T, data) ==
  LET a == data.amount
      before == MapGet(S.salesInvoices, data.invoiceId)
      after == MapGet(T.salesInvoices, data.invoiceId)
  IN /\ Appended(S, T, << Debit(CashCode, a), Credit(ReceivableCode, a) >>)
     /\ BalancesChange(S, T, (CashCode :> a) @@ (ReceivableCode :> 0 - a))
     /\ after.paidAmount = before.paidAmount + a
     /\ after.outstandingAmount = before.outstandingAmount - a
     /\ after.status = IF before.outstandingAmount - a = 0 THEN "paid" ELSE "partial"

\* C13  Collection rule: from every store, an accepted collection of amount a,
\* handled alone, appends the two lines debit Cash a, credit Accounts
\* Receivable a; changes the Cash balance by +a, the Accounts Receivable
\* balance by -a and no other; adds a to the invoice's paidAmount, takes a
\* from its outstandingAmount, and sets its status to paid when nothing is
\* outstanding any more and to partial otherwise.
CollectionRule ==
  \A data \in CollectionInputs :
     ( /\ data.amount > 0
       /\ MapHas(storage.salesInvoices, data.invoiceId)
       /\ data.amount
            <= MapGet(storage.salesInvoices, data.invoiceId).outstandingAmount )
     => CollectionRuleHolds(storage, Run(CollectionsBegin(storage, data)).S, data)

\* A second collection was accepted on an invoice and paid it off: 20 and 30
\* on a total of 50.
CollectionRuleWitness ==
  /\ req[1].kind = "collections" /\ req[1].pc = "done" /\ req[1].status = 200
  /\ Len(storage.collections) = 2
  /\ \E i \in DOMAIN storage.salesInvoices :
       /\ storage.salesInvoices[i].paymentMethod = "credit"
       /\ storage.salesInvoices[i].status = "paid"

ReturnRuleHolds(S, T, data) ==
  LET R == SumSeq([i \in DOMAIN data.items |->
                     data.items[i].quantity * data.items[i].unitPrice])
      RC == SumSeq([i \in DOMAIN data.items |->
                      data.items[i].quantity * data.items[i].cogsUnit])
      invoice == MapGet(S.salesInvoices, data.invoiceId)
      refundedFrom == IF invoice.paymentMethod = "cash" THEN CashCode
                      ELSE ReceivableCode
  IN /\ Appended(S, T, << Debit(SalesReturnsCode, R), Credit(refundedFrom, R),
                          Debit(InventoryCode, RC), Credit(CogsCode, RC) >>)
     /\ BalancesChange(S, T,
          (SalesReturnsCode :> R) @@ (refundedFrom :> 0 - R)
            @@ (InventoryCode :> RC) @@ (CogsCode :> 0 - RC)
            @@ (ShareCapitalCode :> 0 - (R - RC)))

\* C14  Return rule: from every store, a return of amount R and cost RC on an
\* existing invoice, handled alone, appends the four lines debit Sales
\* Returns R, credit Cash (cash invoice) or Accounts Receivable (credit
\* invoice) R, debit Inventory RC, credit Cost of Goods Sold RC, and changes
\* those balances by +R, -R, +RC, -RC and Share Capital by -(R - RC); the
\* credited account follows the invoice's payment method alone, whatever has
\* been collected on the invoice.
ReturnRule ==
  \A data \in ReturnInputs :
     (returnFormSchema(data) /\ MapHas(storage.salesInvoices, data.invoiceId))
     => ReturnRuleHolds(storage, Run(ReturnsBegin(storage, data)).S, data)

\* A return was accepted on a credit invoice that had been collected in full:
\* the refund drives Accounts Receivable below zero.
ReturnRuleWitness ==
  /\ req[1].kind = "sales-returns" /\ req[1].pc = "done" /\ req[1].status = 200
  /\ \E i \in DOMAIN storage.salesReturns :
       LET invoice == MapGet(storage.salesInvoices, storage.salesReturns[i].invoiceId)
       IN invoice.paymentMethod = "credit" /\ invoice.status = "paid"
  /\ BalanceOf(storage, ReceivableCode) < 0

PaymentFields(invoice) ==
  [paidAmount |-> invoice.paidAmount,
   outstandingAmount |-> invoice.outstandingAmount, status |-> invoice.status]

\* The step is an accepted collection on the invoice: it is answered 200 and
\* has added a collection that names the invoice.
CollectedOn(id) ==
  /\ req'[1].kind = "collections" /\ req'[1].status = 200
  /\ Len(storage'.collections) = Len(storage.collections) + 1
  /\ storage'.collections[Len(storage'.collections)].invoiceId = id

\* C15  Invoice frame: every request, handled alone, leaves every invoice in
\* its place with its totalAmount and paymentMethod; the invoice's paidAmount,
\* outstandingAmount and status change only when the request is an accepted
\* collection on that invoice, never with a sale, a return or a collection on
\* another invoice.
InvoiceFrame ==
  [][\A i \in DOMAIN storage.salesInvoices :
       /\ i \in DOMAIN storage'.salesInvoices
       /\ storage'.salesInvoices[i].id = storage.salesInvoices[i].id
       /\ storage'.salesInvoices[i].totalAmount = storage.salesInvoices[i].totalAmount
       /\ storage'.salesInvoices[i].paymentMethod
            = storage.salesInvoices[i].paymentMethod
       /\ PaymentFields(storage'.salesInvoices[i]) # PaymentFields(storage.salesInvoices[i])
            => CollectedOn(storage.salesInvoices[i].id)]_vars

\* A return was accepted on an invoice that a collection had paid in part,
\* and the invoice is still as the collection left it.
InvoiceFrameWitness ==
  /\ req[1].kind = "sales-returns" /\ req[1].status = 200
  /\ \E i \in DOMAIN storage.salesReturns :
       MapGet(storage.salesInvoices, storage.salesReturns[i].invoiceId).status
         = "partial"

\* The balance the chart of accounts starts the account with.
SeedBalance(code) ==
  LET i == CHOOSE k \in DOMAIN defaultAccounts : defaultAccounts[k].code = code
  IN defaultAccounts[i].balance

EntriesOn(S, code) == SelectSeq(S.journalEntries, LAMBDA e : e.accountCode = code)

PostedCodes ==
  {CashCode, ReceivableCode, InventoryCode, SalesRevenueCode, SalesReturnsCode,
   CogsCode}

\* C16  Uniform posting, as stated: every account that receives postings has
\* its initial balance plus its journal debits minus its journal credits.
UniformPosting ==
  \A code \in PostedCodes :
     BalanceOf(storage, code)
       = SeedBalance(code) + TotalDebits(EntriesOn(storage, code))
           - TotalCredits(EntriesOn(storage, code))

\* C16  Posting by normal side (amended): Cash, Accounts Receivable,
\* Inventory, Sales Returns and Cost of Goods Sold have their initial balance
\* plus their journal debits minus their journal credits; Sales Revenue, which
\* grows on its credit side, has its initial balance plus its journal credits
\* minus its journal debits.
PostingByNormalSide ==
  \A code \in PostedCodes :
     BalanceOf(storage, code)
       = IF code = SalesRevenueCode
           THEN SeedBalance(code) + TotalCredits(EntriesOn(storage, code))
                  - TotalDebits(EntriesOn(storage, code))
           ELSE SeedBalance(code) + TotalDebits(EntriesOn(storage, code))
                  - TotalCredits(EntriesOn(storage, code))

\* Each of the six accounts has received a posting.
PostingWitness ==
  \A code \in PostedCodes : EntriesOn(storage, code) # <<>>

\* ------------------------- snapshots and restarts of the server (SpecSnapshot)

SnapItemLists == { << [quantity |-> 2, unitPrice |-> 25, cogsUnit |-> 10] >> }
SnapInvoiceIds == 1..MaxSnapEvents
SnapSalesInputs ==
  [invoiceNumber : {1}, date : Dates, paymentMethod : {"cash", "credit"},
   items : SnapItemLists]
SnapCollectionInputs == [invoiceId : SnapInvoiceIds, date : Dates, amount : {30}]
SnapReturnInputs == [invoiceId : SnapInvoiceIds, date : Dates, items : SnapItemLists]

\* A sale, collection or return handled alone, its file write succeeding; an
\* event is accepted while the store holds fewer than MaxSnapEvents events and
\* has issued fewer than MaxSnapEvents transaction ids.
SnapEvent(begin) ==
  \E e \in {Run(begin)} :
     /\ \/ e.L.pc = "done"
        \/ /\ Accepted(storage) < MaxSnapEvents
           /\ storage.currentTransactionId <= MaxSnapEvents
     /\ storage' = e.S
     /\ file' = IF e.L.pc = "done" THEN file ELSE <<e.L.snapshot>>
     /\ req' = [req EXCEPT ![1] = IF e.L.pc = "done" THEN e.L
                                  ELSE Answer(e.L, TRUE)]
     /\ call' = call

\* GET /api/export-data: the client keeps the snapshot it is sent. A run has
\* one download, so that the balances a restored store starts from are those
\* of at most MaxSnapEvents events.
GetExportData ==
  /\ call.op = "none"
  /\ req' = [req EXCEPT ![1] = Done("export-data", 200, exportData(storage))]
  /\ call' = [op |-> "download", data |-> exportData(storage)]
  /\ UNCHANGED <<storage, file>>

\* The body {}: every field is undefined, new Map(undefined) is an empty map
\* and there is no counters block.
EmptyBody ==
  [ accounts |-> <<>>, transactions |-> <<>>, journalEntries |-> <<>>,
    salesInvoices |-> <<>>, salesItems |-> <<>>, collections |-> <<>>,
    salesReturns |-> <<>>, returnItems |-> <<>>, counters |-> <<>> ]

\* The bodies a client can upload: the snapshot it downloaded, as it is or
\* with the counters block left out, and the body {}.
Uploads ==
  {EmptyBody} \cup
    (IF call.op = "download"
       THEN {call.data, [call.data EXCEPT !.counters = <<>>]}
       ELSE {})

\* POST /api/import-data: importData(req.body), then saveToFile.
PostImportData(data) ==
  /\ storage' = importData(storage, data)
  /\ file' = << exportData(storage') >>
  /\ req' = [req EXCEPT ![1] = Done("import-data", 200, [success |-> TRUE])]
  /\ call' = call

\* The server process starts anew: the module builds a MemStorage and
\* registerRoutes loads accounting_data.json from the working directory,
\* where the file of the last run is found (keep) or is not.
Restart(keep) ==
  /\ file' = IF keep THEN file ELSE <<>>
  /\ storage' = loadFromFile(NewMemStorage, file')
  /\ req' = [r \in Reqs |-> Idle]
  /\ call' = call

NextSnapshot ==
  \/ \E data \in SnapSalesInputs : SnapEvent(SalesBegin(storage, data))
  \/ \E data \in SnapCollectionInputs : SnapEvent(CollectionsBegin(storage, data))
  \/ \E data \in SnapReturnInputs : SnapEvent(ReturnsBegin(storage, data))
  \/ GetExportData
  \/ \E data \in Uploads : PostImportData(data)
  \/ \E keep \in BOOLEAN : Restart(keep)

SpecSnapshot == Init /\ [][NextSnapshot]_vars

\* C17  Snapshot round trip: in every reachable state, importData of what
\* exportData returns, into the same store or into a freshly built one,
\* gives a store equal to the exported one in its eight collections and its
\* eight counters, and getBalanceSheet and getStats answer the same on both.
SnapshotRoundTrip ==
  \A T \in {storage, NewMemStorage} :
     LET R == importData(T, exportData(storage))
     IN /\ R = storage
        /\ getBalanceSheet(R) = getBalanceSheet(storage)
        /\ getStats(R) = getStats(storage)

\* An import has put the store back to the downloaded snapshot, which holds
\* an invoice and a return.
SnapshotRoundTripWitness ==
  /\ req[1].kind = "import-data"
  /\ call.op = "download" /\ exportData(storage) = call.data
  /\ storage.salesInvoices # <<>> /\ storage.salesReturns # <<>>

\* The entity collections and the counter each takes its ids from.
EntityKinds ==
  { <<"transactions", "currentTransactionId">>,
    <<"journalEntries", "currentJournalEntryId">>,
    <<"salesInvoices", "currentSalesInvoiceId">>,
    <<"salesItems", "currentSalesItemId">>,
    <<"collections", "currentCollectionId">>,
    <<"salesReturns", "currentSalesReturnId">>,
    <<"returnItems", "currentReturnItemId">> }

IdsIn(m) == {m[i].id : i \in DOMAIN m}

\* From store S to store T every id issued went to a new entity: the entities
\* of S are all still there, each id taken from a counter is the id of an
\* entity that was not there and is greater than every id that was.
IssuesFresh(S, T) ==
  \A k \in EntityKinds :
     LET old == IdsIn(S[k[1]])
         new == IdsIn(T[k[1]])
     IN /\ old \subseteq new
        /\ Len(T[k[1]]) = Len(S[k[1]]) + Cardinality(new \ old)
        /\ Cardinality(new \ old) = T[k[2]] - S[k[2]]
        /\ \A a \in new \ old : \A b \in old : a > b

\* C18  Id monotonicity: whenever a sale, a collection or a return is
\* handled, also after an import or a restart, every entity it creates gets
\* an id greater than all ids in its collection and overwrites no entity.
IdMonotonicity ==
  [][req'[1].kind \in {"sales", "collections", "sales-returns"}
       => IssuesFresh(storage, storage')]_vars

\* C19  Journal append-only: every step of a sequence of sales, collections
\* and returns leaves each journal entry in its place with its id,
\* transactionId, accountCode, debitAmount and creditAmount, and the journal
\* never gets shorter.
JournalAppendOnly ==
  [][\A i \in DOMAIN storage.journalEntries :
        /\ i \in DOMAIN storage'.journalEntries
        /\ storage'.journalEntries[i].id = storage.journalEntries[i].id
        /\ storage'.journalEntries[i].transactionId
             = storage.journalEntries[i].transactionId
        /\ storage'.journalEntries[i].accountCode
             = storage.journalEntries[i].accountCode
        /\ storage'.journalEntries[i].debitAmount
             = storage.journalEntries[i].debitAmount
        /\ storage'.journalEntries[i].creditAmount
             = storage.journalEntries[i].creditAmount]_vars

\* A sale, a collection and a return have each added their lines after the
\* lines that were there: four, two and four.
JournalAppendOnlyWitness ==
  /\ Len(storage.journalEntries) = 10
  /\ storage.collections # <<>> /\ storage.salesReturns # <<>>

\* The sum of a field over the values of a map.
RECURSIVE FieldSum(_, _)
FieldSum(m, f) ==
  IF m = <<>> THEN 0
  ELSE m[Len(m)][f] + FieldSum(SubSeq(m, 1, Len(m) - 1), f)

ExpectedStats(S) ==
  LET grossProfit ==
        (BalanceOf(S, SalesRevenueCode) - BalanceOf(S, SalesReturnsCode))
          - BalanceOf(S, CogsCode)
  IN [ totalSales |-> FieldSum(S.salesInvoices, "totalAmount"),
       totalCollections |-> FieldSum(S.collections, "amount"),
       totalReturns |-> FieldSum(S.salesReturns, "totalAmount"),
       outstandingReceivables |-> FieldSum(S.salesInvoices, "outstandingAmount"),
       grossProfit |-> grossProfit,
       netIncome |-> grossProfit ]

\* C20  Statistics: in every state getStats gives the sum of the invoices'
\* totalAmount, of the collections' amount, of the returns' totalAmount and of
\* the invoices' outstandingAmount, grossProfit as Sales Revenue less Sales
\* Returns less Cost of Goods Sold, and netIncome equal to grossProfit; an
\* answer of GET /api/stats carries those values.
Statistics ==
  /\ getStats(storage) = ExpectedStats(storage)
  /\ req[1].kind = "stats" /\ req[1].pc = "done"
       => req[1].status = 200 /\ req[1].body = ExpectedStats(storage)

\* The statistics were asked for after a sale, a collection and a return.
StatisticsWitness ==
  /\ req[1].kind = "stats" /\ req[1].pc = "done"
  /\ req[1].body.totalCollections > 0 /\ req[1].body.totalReturns > 0
  /\ req[1].body.outstandingReceivables > 0

\* C21  Idempotent reporting: a GET /api/balance-sheet or GET /api/stats
\* leaves the store and the data file as they are, and a balance sheet asked
\* for right after a balance sheet is the same sheet.
IdempotentReporting ==
  [][req'[1].kind \in {"balance-sheet", "stats"}
       => /\ storage' = storage
          /\ file' = file
          /\ req[1].kind = "balance-sheet" /\ req'[1].kind = "balance-sheet"
               => req'[1] = req[1]]_vars

\* A balance sheet was answered for a store that holds a sale on credit, a
\* collection and a return.
IdempotentReportingWitness ==
  /\ req[1].kind = "balance-sheet" /\ req[1].pc = "done"
  /\ req[1].body = getBalanceSheet(storage)
  /\ storage.collections # <<>> /\ storage.salesReturns # <<>>

\* C22  Unique invoice number: no two invoices of the store have the same
\* invoiceNumber.
UniqueInvoiceNumber ==
  \A i, j \in DOMAIN storage.salesInvoices :
     storage.salesInvoices[i].invoiceNumber = storage.salesInvoices[j].invoiceNumber
       => i = j

SeededCodes == {defaultAccounts[i].code : i \in DOMAIN defaultAccounts}

\* C23  Chart of accounts: the eight seeded accounts are in the ledger in
\* every state, and every journal entry names an account of the ledger.
ChartOfAccounts ==
  /\ \A code \in SeededCodes : getAccountByCode(storage, code) # <<>>
  /\ \A i \in DOMAIN storage.journalEntries :
        getAccountByCode(storage, storage.journalEntries[i].accountCode) # <<>>

\* ------------------------------------------- the journal listed (SpecListing)

\* new Date(s) for a string s that is no date ("" for one): the Invalid Date,
\* whose getTime() is NaN. The other dates are held as their getTime().
InvalidDate == 0

\* The comparator of getJournalEntries, new Date(b.date).getTime() -
\* new Date(a.date).getTime(), as the sort takes it: a NaN counts as +0.
CompareByDate(a, b) ==
  IF a.date = InvalidDate \/ b.date = InvalidDate THEN 0 ELSE b.date - a.date

\* e is put behind the last element it does not have to come before.
RECURSIVE InsertByDate(_, _)
InsertByDate(sorted, e) ==
  IF sorted = <<>> THEN <<e>>
  ELSE IF CompareByDate(sorted[Len(sorted)], e) > 0
         THEN Append(InsertByDate(SubSeq(sorted, 1, Len(sorted) - 1), e),
                     sorted[Len(sorted)])
         ELSE Append(sorted, e)

\* Array.prototype.sort is stable: elements the comparator calls equal keep
\* their order. It is run here as an insertion from left to right.
RECURSIVE SortByDate(_)
SortByDate(s) ==
  IF s = <<>> THEN <<>>
  ELSE InsertByDate(SortByDate(SubSeq(s, 1, Len(s) - 1)), s[Len(s)])

getJournalEntries(S) == SortByDate(S.journalEntries)

ListingDates == {InvalidDate, 1, 2, 3}
ListingSalesInputs ==
  [invoiceNumber : {1}, date : ListingDates, paymentMethod : {"cash"},
   items : SnapItemLists]

\* GET /api/journal-entries
GetJournalEntries ==
  /\ req' = [req EXCEPT ![1] = Done("journal-entries", 200,
                                    getJournalEntries(storage))]
  /\ UNCHANGED <<storage, file, call>>

NextListing ==
  \/ \E data \in ListingSalesInputs : PostSales(data, TRUE, MaxListedEvents)
  \/ GetJournalEntries

SpecListing == Init /\ [][NextListing]_vars

\* C24  Journal listing order: the list GET /api/journal-entries answers with
\* holds every journal entry of the store exactly once; of two entries with
\* different dates the later comes first, and of two with the same date the
\* one created first comes first.
JournalListing ==
  req[1].kind = "journal-entries" =>
    LET r == req[1].body
    IN /\ Len(r) = Len(storage.journalEntries)
       /\ \A i \in DOMAIN storage.journalEntries :
            \E j \in DOMAIN r : r[j] = storage.journalEntries[i]
       /\ \A i, j \in DOMAIN r :
            /\ i < j
            /\ r[i].date # InvalidDate /\ r[j].date # InvalidDate
            => \/ r[i].date > r[j].date
               \/ r[i].date = r[j].date /\ r[i].id < r[j].id

\* The amounts collected on the invoice with the id.
CollectedFor(S, id) ==
  SumSeq([i \in DOMAIN S.collections |->
            IF S.collections[i].invoiceId = id THEN S.collections[i].amount ELSE 0])

\* What the invoice had outstanding when it was created: all of it when sold
\* on credit, nothing when sold for cash.
OutstandingAtCreation(invoice) ==
  IF invoice.paymentMethod = "cash" THEN 0 ELSE invoice.totalAmount

\* C25  Collection total bound: whatever the interleaving of the requests, the
\* collections recorded for an invoice sum to no more than it had outstanding
\* at creation, its outstandingAmount is not negative and its paidAmount is
\* not above its totalAmount.
CollectionTotalBound ==
  \A i \in DOMAIN storage.salesInvoices :
     LET invoice == storage.salesInvoices[i]
     IN /\ CollectedFor(storage, invoice.id) <= OutstandingAtCreation(invoice)
        /\ invoice.outstandingAmount >= 0
        /\ invoice.paidAmount <= invoice.totalAmount

\* The amounts returned so far on the invoice with the id.
ReturnedOn(S, id) ==
  SumSeq([i \in DOMAIN S.salesReturns |->
            IF S.salesReturns[i].invoiceId = id
              THEN S.salesReturns[i].totalAmount ELSE 0])

ReturnAmount(data) ==
  SumSeq([i \in DOMAIN data.items |->
            data.items[i].quantity * data.items[i].unitPrice])

\* The return asks for more than the invoice's total less what was returned
\* on it before.
OverReturn(S, data) ==
  /\ MapHas(S.salesInvoices, data.invoiceId)
  /\ ReturnAmount(data)
       > MapGet(S.salesInvoices, data.invoiceId).totalAmount
           - ReturnedOn(S, data.invoiceId)

\* C26  Uncapped returns: from every store, a return of more than the
\* invoice's total, or of more than earlier returns have left of it, handled
\* alone, is accepted and posted by the return rule; after it the balance
\* sheet still has totalAssets equal to totalLiabEquity and every transaction
\* still has debits equal to credits.
UncappedReturns ==
  \A data \in ReturnInputs :
     (returnFormSchema(data) /\ OverReturn(storage, data))
     => LET e == Run(ReturnsBegin(storage, data))
        IN /\ e.L.pc = "saving" /\ e.L.body.success
           /\ Len(e.S.salesReturns) = Len(storage.salesReturns) + 1
           /\ ReturnRuleHolds(storage, e.S, data)
           /\ getBalanceSheet(e.S).totalAssets = getBalanceSheet(e.S).totalLiabEquity
           /\ \A i \in DOMAIN e.S.transactions :
                LET entries == EntriesOf(e.S, e.S.transactions[i].id)
                IN TotalDebits(entries) = TotalCredits(entries)

\* A return of 100 was accepted on an invoice of 50 sold on credit: Accounts
\* Receivable is below zero.
UncappedReturnsWitness ==
  /\ req[1].kind = "sales-returns" /\ req[1].pc = "done" /\ req[1].status = 200
  /\ \E i \in DOMAIN storage.salesReturns :
       storage.salesReturns[i].totalAmount
         > MapGet(storage.salesInvoices, storage.salesReturns[i].invoiceId).totalAmount
  /\ BalanceOf(storage, ReceivableCode) < 0

EquityRollUpWitness ==
  /\ Quiescent
  /\ storage.salesReturns # <<>>
  /\ Len(storage.salesInvoices) = 2
  /\ BalanceOf(storage, ShareCapitalCode) # SeedShareCapital

ReceivableReconciliationWitness ==
  /\ Quiescent
  /\ storage.collections # <<>>
  /\ \E i \in DOMAIN storage.salesReturns :
       MapGet(storage.salesInvoices,
              storage.salesReturns[i].invoiceId).paymentMethod = "credit"
  /\ BalanceOf(storage, ReceivableCode) # getStats(storage).outstandingReceivables

\* ----------------- collections in flight together on one invoice (SpecCollect)

CollectInputs == [invoiceId : {1}, date : Dates, amount : {30, 50}]

\* Collections of a part and of the whole of invoice 1, up to MaxInFlight of
\* them in flight together, on the store SpecConc starts from.
NextCollect ==
  \/ \E r \in Reqs, data \in CollectInputs : BeginCollections(r, data)
  \/ \E r \in Reqs : Resume(r)
  \/ \E r \in Reqs : WriteFileDone(r, TRUE)

SpecCollect == InitConc /\ [][NextCollect]_vars

StatusRank(status) ==
  CASE status = "open" -> 1
    [] status = "partial" -> 2
    [] status = "paid" -> 3

\* C29  Invoice status progression: on every step every invoice stays in the
\* store, its outstandingAmount does not grow and its status does not move
\* back in the order open, partial, paid; an invoice that is paid keeps its
\* paidAmount, outstandingAmount and status and gets no further collection.
StatusProgression ==
  [][\A i \in DOMAIN storage.salesInvoices :
        /\ i \in DOMAIN storage'.salesInvoices
        /\ storage'.salesInvoices[i].id = storage.salesInvoices[i].id
        /\ storage'.salesInvoices[i].outstandingAmount
             <= storage.salesInvoices[i].outstandingAmount
        /\ StatusRank(storage'.salesInvoices[i].status)
             >= StatusRank(storage.salesInvoices[i].status)
        /\ storage.salesInvoices[i].status = "paid"
             => /\ PaymentFields(storage'.salesInvoices[i])
                     = PaymentFields(storage.salesInvoices[i])
                /\ CollectedFor(storage', storage.salesInvoices[i].id)
                     = CollectedFor(storage, storage.salesInvoices[i].id)]_vars

\* C30  Persisted state is the latest state: once every request that arrived
\* is answered, the data file, if it was written, holds the snapshot of the
\* store as it is now.
PersistedLatest ==
  (Quiescent /\ file # <<>>) => file = << exportData(storage) >>

====
